---- MODULE Spec2Model ----
(***************************************************************************)
(* Model of the two sqlite3 classroom scripts, exercises.py and            *)
(* homework.py.  A run executes one of the two scripts (variable script).  *)
(* The state is the connection: the tables as the connection sees them     *)
(* (db), the tables as of the last commit (saved) and whether a            *)
(* transaction is open (inTxn), plus the outcome of the last call          *)
(* (result).  Each function of the scripts is an operator from a           *)
(* connection and arguments to a new connection, an exception and a        *)
(* return value; each action is a call of one function by main or by any   *)
(* other caller that catches the exception.                                *)
(*                                                                         *)
(* The connection is opened with the default isolation level of Python's   *)
(* sqlite3 module: INSERT, UPDATE and DELETE open a transaction when none  *)
(* is open, and the transaction stays open when the statement fails.       *)
(* AUTOINCREMENT ids come from the sqlite_sequence table (field seq),      *)
(* which is rolled back like any other table.  The enrolled_at timestamp   *)
(* column is not modelled.                                                 *)
(***************************************************************************)
EXTENDS Integers, Sequences, FiniteSets

VARIABLES script, db, saved, inTxn, result

vars == <<script, db, saved, inTxn, result>>

----------------------------------------------------------------------------
(* Bounds of the model *)

MaxStudentId == 2
MaxEnrollId == 2
MaxAssignId == 2
MaxGradeId == 2

(* Argument values *)

Null == "NULL"
NameOrder == <<"Etty", "Rena">>
Names == {NameOrder[i] : i \in 1..Len(NameOrder)}
Emails == {"etty@example.com", "rena@example.com"}
CodeOrder == <<"CS101", "CS205", "CS310">>
Titles == <<"Intro to Programming", "Web Development", "Data Structures">>

NoExc == "none"
IntegrityError == "IntegrityError"
OperationalError == "OperationalError"

----------------------------------------------------------------------------
(* Helpers *)

Rank(order, x) == CHOOSE i \in 1..Len(order) : order[i] = x

Conn == [db |-> db, saved |-> saved, inTxn |-> inTxn]

Ret(c, exc, val) == [conn |-> c, exc |-> exc, constraint |-> "", val |-> val]

\* sqlite3.IntegrityError, "<constraint> constraint failed"
Fail(c, constraint) ==
  [conn |-> c, exc |-> IntegrityError, constraint |-> constraint, val |-> 0]

\* the constraint an INSERT or UPDATE violates, in the order SQLite checks them
Violated(notNull, check, unique, foreignKey) ==
  IF notNull THEN "NOT NULL"
  ELSE IF check THEN "CHECK"
  ELSE IF unique THEN "UNIQUE"
  ELSE IF foreignKey THEN "FOREIGN KEY"
  ELSE ""

\* sqlite3 opens a transaction before a data-modifying statement
ImplicitBegin(c) == [c EXCEPT !.inTxn = TRUE]

----------------------------------------------------------------------------
(* exercises.py *)

seed_courses ==
  {[id |-> i, code |-> CodeOrder[i], title |-> Titles[i]] : i \in 1..Len(CodeOrder)}

\* the database after create_schema, seed_courses and conn.commit()
ExInitDb ==
  [students |-> {}, courses |-> seed_courses, enrollments |-> {},
   seq |-> [students |-> 0, courses |-> Len(CodeOrder), enrollments |-> 0]]


\* add_student on a table whose email column is not UNIQUE
add_student_no_unique(c, name, email) ==
  LET c1 == ImplicitBegin(c)
      id == c1.db.seq.students + 1
      bad == Violated(name = Null \/ email = Null, FALSE, FALSE, FALSE)
  IN  IF bad # "" THEN Fail(c1, bad)
      ELSE Ret([c1 EXCEPT !.db.students = @ \cup {[id |-> id, name |-> name, email |-> email]},
                          !.db.seq.students = id],
               NoExc, id)

add_student(c, name, email) ==
  LET c1 == ImplicitBegin(c)
      id == c1.db.seq.students + 1
      bad == Violated(name = Null \/ email = Null, FALSE,
                      \E s \in c1.db.students : s.email = email, FALSE)
  IN  IF bad # "" THEN Fail(c1, bad)
      ELSE Ret([c1 EXCEPT !.db.students = @ \cup {[id |-> id, name |-> name, email |-> email]},
                          !.db.seq.students = id],
               NoExc, id)

rename_student(c, student_id, new_name) ==
  LET c1 == ImplicitBegin(c)
      hit == {s \in c1.db.students : s.id = student_id}
      bad == Violated(new_name = Null /\ hit # {}, FALSE, FALSE, FALSE)
  IN  IF bad # "" THEN Fail(c1, bad)
      ELSE Ret([c1 EXCEPT !.db.students =
                  {IF s \in hit THEN [s EXCEPT !.name = new_name] ELSE s : s \in @}],
               NoExc, Cardinality(hit))

delete_student(c, student_id) ==
  LET c1 == ImplicitBegin(c)
      hit == {s \in c1.db.students : s.id = student_id}
  IN  Ret([c1 EXCEPT !.db.students = @ \ hit,
                     !.db.enrollments = {e \in @ : e.student_id # student_id}],
          NoExc, Cardinality(hit))


\* enroll_student on a table without UNIQUE(student_id, course_id)
enroll_student_no_unique(c, student_id, course_id) ==
  LET c1 == ImplicitBegin(c)
      id == c1.db.seq.enrollments + 1
      bad == Violated(FALSE, FALSE, FALSE,
                      \/ ~ \E s \in c1.db.students : s.id = student_id
                      \/ ~ \E k \in c1.db.courses : k.id = course_id)
  IN  IF bad # "" THEN Fail(c1, bad)
      ELSE Ret([c1 EXCEPT !.db.enrollments =
                              @ \cup {[id |-> id, student_id |-> student_id,
                                       course_id |-> course_id]},
                          !.db.seq.enrollments = id],
               NoExc, 0)

enroll_student(c, student_id, course_id) ==
  LET c1 == ImplicitBegin(c)
      id == c1.db.seq.enrollments + 1
      bad == Violated(FALSE, FALSE,
                      \E e \in c1.db.enrollments :
                         e.student_id = student_id /\ e.course_id = course_id,
                      \/ ~ \E s \in c1.db.students : s.id = student_id
                      \/ ~ \E k \in c1.db.courses : k.id = course_id)
  IN  IF bad # "" THEN Fail(c1, bad)
      ELSE Ret([c1 EXCEPT !.db.enrollments =
                              @ \cup {[id |-> id, student_id |-> student_id,
                                       course_id |-> course_id]},
                          !.db.seq.enrollments = id],
               NoExc, 0)

\* the rows of the join, one per enrollment: the sort key and the row
EnrollmentRows(d) ==
  {[eid |-> e.id, student_name |-> s.name, course_code |-> k.code,
    course_title |-> k.title] :
     <<e, s, k>> \in {t \in d.enrollments \X d.students \X d.courses :
                        t[2].id = t[1].student_id /\ t[3].id = t[1].course_id}}

RowBefore(a, b) ==
  \/ Rank(NameOrder, a.student_name) < Rank(NameOrder, b.student_name)
  \/ /\ a.student_name = b.student_name
     /\ Rank(CodeOrder, a.course_code) < Rank(CodeOrder, b.course_code)
  \/ /\ a.student_name = b.student_name
     /\ a.course_code = b.course_code
     /\ a.eid < b.eid

RECURSIVE SortRows(_)
SortRows(rows) ==
  IF rows = {} THEN <<>>
  ELSE LET first == CHOOSE r \in rows : \A q \in rows \ {r} : RowBefore(r, q)
       IN  <<[student_name |-> first.student_name, course_code |-> first.course_code,
              course_title |-> first.course_title]>>
           \o SortRows(rows \ {first})

list_enrollments(c) == Ret(c, NoExc, SortRows(EnrollmentRows(c.db)))

\* conn.execute("BEGIN;")
ExecBegin(c) ==
  IF c.inTxn THEN Ret(c, OperationalError, 0)
  ELSE Ret([c EXCEPT !.inTxn = TRUE], NoExc, 0)

\* conn.execute("COMMIT;")
ExecCommit(c) ==
  IF ~c.inTxn THEN Ret(c, OperationalError, 0)
  ELSE Ret([c EXCEPT !.saved = c.db, !.inTxn = FALSE], NoExc, 0)


\* ExecRollback that ends the transaction and keeps its changes
ExecRollbackKeeps(c) ==
  IF ~c.inTxn THEN Ret(c, OperationalError, 0)
  ELSE Ret([c EXCEPT !.saved = c.db, !.inTxn = FALSE], NoExc, 0)

\* conn.execute("ROLLBACK;")
ExecRollback(c) ==
  IF ~c.inTxn THEN Ret(c, OperationalError, 0)
  ELSE Ret([c EXCEPT !.db = c.saved, !.inTxn = FALSE], NoExc, 0)

\* conn.commit()
commit(c) ==
  IF c.inTxn THEN [c EXCEPT !.saved = c.db, !.inTxn = FALSE] ELSE c

\* main, the try block that enrolls the same pair twice, and the listing
\* after it.  calls counts the enroll_student calls made, raised is the
\* exception of the try body, rolledBack whether the handler ran.
main_block(c, s1, course) ==
  LET b  == ExecBegin(c)
      e1 == enroll_student(b.conn, s1, course)
      e2 == enroll_student(e1.conn, s1, course)
      cm == ExecCommit(e2.conn)
      calls == IF b.exc # NoExc THEN 0 ELSE IF e1.exc # NoExc THEN 1 ELSE 2
      body == IF b.exc # NoExc THEN b
              ELSE IF e1.exc # NoExc THEN e1
              ELSE IF e2.exc # NoExc THEN e2
              ELSE cm
      caught == body.exc = IntegrityError
      rb == ExecRollback(body.conn)
      after == IF caught THEN rb ELSE body
      rows == list_enrollments(after.conn)
  IN  [conn |-> after.conn,
       exc |-> after.exc,
       constraint |-> after.constraint,
       val |-> IF after.exc = NoExc THEN rows.val ELSE <<>>,
       calls |-> calls,
       raised |-> body.exc,
       rolledBack |-> caught /\ rb.exc = NoExc,
       before |-> c.db.enrollments]

----------------------------------------------------------------------------
(* homework.py *)

HwNames == {"Rivka", "Esther"}
HwEmails == {"rivka@example.com", "esther@example.com"}
HwTitles == {"Quiz 1"}
MaxPointsArgs == {0, 3, 8}
ScoreArgs == {-1, 1, 2}

\* the database after create_schema and conn.commit()
HwInitDb ==
  [students |-> {}, assignments |-> {}, grades |-> {},
   seq |-> [students |-> 0, assignments |-> 0, grades |-> 0]]

hw_add_student(c, name, email) ==
  LET c1 == ImplicitBegin(c)
      id == c1.db.seq.students + 1
      bad == Violated(name = Null \/ email = Null, FALSE,
                      \E s \in c1.db.students : s.email = email, FALSE)
  IN  IF bad # "" THEN Fail(c1, bad)
      ELSE Ret([c1 EXCEPT !.db.students = @ \cup {[id |-> id, name |-> name, email |-> email]},
                          !.db.seq.students = id],
               NoExc, id)

add_assignment(c, title, max_points) ==
  LET c1 == ImplicitBegin(c)
      id == c1.db.seq.assignments + 1
      bad == Violated(title = Null, ~(max_points > 0), FALSE, FALSE)
  IN  IF bad # "" THEN Fail(c1, bad)
      ELSE Ret([c1 EXCEPT !.db.assignments =
                              @ \cup {[id |-> id, title |-> title, max_points |-> max_points]},
                          !.db.seq.assignments = id],
               NoExc, id)


\* record_grade written as INSERT OR REPLACE: a second grade replaces the first
record_grade_replace(c, student_id, assignment_id, score) ==
  LET c1 == ImplicitBegin(c)
      id == c1.db.seq.grades + 1
      old == {g \in c1.db.grades :
                g.student_id = student_id /\ g.assignment_id = assignment_id}
      bad == Violated(FALSE, ~(score >= 0), FALSE,
                      \/ ~ \E s \in c1.db.students : s.id = student_id
                      \/ ~ \E a \in c1.db.assignments : a.id = assignment_id)
  IN  IF bad # "" THEN Fail(c1, bad)
      ELSE Ret([c1 EXCEPT !.db.grades =
                              (@ \ old) \cup {[id |-> id, student_id |-> student_id,
                                               assignment_id |-> assignment_id,
                                               score |-> score]},
                          !.db.seq.grades = id],
               NoExc, id)

record_grade(c, student_id, assignment_id, score) ==
  LET c1 == ImplicitBegin(c)
      id == c1.db.seq.grades + 1
      bad == Violated(FALSE, ~(score >= 0),
                      \E g \in c1.db.grades :
                         g.student_id = student_id /\ g.assignment_id = assignment_id,
                      \/ ~ \E s \in c1.db.students : s.id = student_id
                      \/ ~ \E a \in c1.db.assignments : a.id = assignment_id)
  IN  IF bad # "" THEN Fail(c1, bad)
      ELSE Ret([c1 EXCEPT !.db.grades =
                              @ \cup {[id |-> id, student_id |-> student_id,
                                       assignment_id |-> assignment_id, score |-> score]},
                          !.db.seq.grades = id],
               NoExc, id)

\* grades JOIN students JOIN assignments
GradeJoin(d) ==
  {t \in d.grades \X d.students \X d.assignments :
     t[2].id = t[1].student_id /\ t[3].id = t[1].assignment_id}

\* SUM(1.0 * score / max_points * 100) over joined rows, as a fraction <<num, den>>
RECURSIVE SumPercent(_)
SumPercent(rows) ==
  IF rows = {} THEN <<0, 1>>
  ELSE LET t == CHOOSE r \in rows : TRUE
           rest == SumPercent(rows \ {t})
       IN  <<t[1].score * 100 * rest[2] + rest[1] * t[3].max_points,
             t[3].max_points * rest[2]>>

\* AVG(...) over the rows of one group, as a fraction
AvgPercent(rows) ==
  LET sum == SumPercent(rows)
  IN  <<sum[1], sum[2] * Cardinality(rows)>>

\* ROUND(x, 1) of a non-negative fraction, in tenths: half rounds up
Round1(x) == (20 * x[1] + x[2]) \div (2 * x[2])


\* LeaderboardGroups with GROUP BY students.name
LeaderboardGroupsByName(d) ==
  LET joined == GradeJoin(d)
      keys == {t[2].name : t \in joined}
  IN  {LET rows == {t \in joined : t[2].name = k}
       IN  [key |-> k,
            student_name |-> (CHOOSE t \in rows : TRUE)[2].name,
            avg_percent |-> Round1(AvgPercent(rows))] : k \in keys}

\* one row per group of GROUP BY students.id
LeaderboardGroups(d) ==
  LET joined == GradeJoin(d)
      keys == {t[2].id : t \in joined}
  IN  {LET rows == {t \in joined : t[2].id = k}
       IN  [key |-> k,
            student_name |-> (CHOOSE t \in rows : TRUE)[2].name,
            avg_percent |-> Round1(AvgPercent(rows))] : k \in keys}

\* does the sequence of group keys satisfy ORDER BY avg_percent DESC
OrderedDesc(groups, order) ==
  \A i \in 1..(Len(order) - 1) :
     (CHOOSE g \in groups : g.key = order[i]).avg_percent
       >= (CHOOSE g \in groups : g.key = order[i + 1]).avg_percent

\* the row lists the query may return: rows of equal avg_percent come in any order
leaderboard(c) ==
  LET groups == LeaderboardGroups(c.db)
      keys == {g.key : g \in groups}
      n == Cardinality(keys)
      orders == {o \in [1..n -> keys] :
                   /\ \A i, j \in 1..n : i # j => o[i] # o[j]
                   /\ OrderedDesc(groups, o)}
  IN  {Ret(c, NoExc,
           [i \in 1..n |->
              LET g == CHOOSE g \in groups : g.key = o[i]
              IN  [student_name |-> g.student_name, avg_percent |-> g.avg_percent]]) :
        o \in orders}

----------------------------------------------------------------------------
(* Calls *)

Apply(op, r) ==
  /\ db' = r.conn.db
  /\ saved' = r.conn.saved
  /\ inTxn' = r.conn.inTxn
  /\ result' = [op |-> op, exc |-> r.exc, constraint |-> r.constraint, val |-> r.val]
  /\ UNCHANGED script

StudentIds == 1..MaxStudentId
CourseIds == 1..(Len(CodeOrder) + 1)

ExAddStudent ==
  /\ script = "exercises"
  /\ db.seq.students < MaxStudentId
  /\ \E name \in Names \cup {Null}, email \in Emails \cup {Null} :
       Apply("add_student", add_student(Conn, name, email))

ExRenameStudent ==
  /\ script = "exercises"
  /\ \E id \in StudentIds, name \in Names \cup {Null} :
       Apply("rename_student", rename_student(Conn, id, name))

ExDeleteStudent ==
  /\ script = "exercises"
  /\ \E id \in StudentIds : Apply("delete_student", delete_student(Conn, id))

ExEnrollStudent ==
  /\ script = "exercises"
  /\ db.seq.enrollments < MaxEnrollId
  /\ \E s \in StudentIds, k \in CourseIds :
       Apply("enroll_student", enroll_student(Conn, s, k))

ExListEnrollments ==
  /\ script = "exercises"
  /\ Apply("list_enrollments", list_enrollments(Conn))

ExBegin ==
  /\ script = "exercises"
  /\ Apply("BEGIN", ExecBegin(Conn))

ExCommitStmt ==
  /\ script = "exercises"
  /\ Apply("COMMIT", ExecCommit(Conn))

ExRollbackStmt ==
  /\ script = "exercises"
  /\ Apply("ROLLBACK", ExecRollback(Conn))

ExCommit ==
  /\ script = "exercises"
  /\ Apply("commit", Ret(commit(Conn), NoExc, 0))

ExMainBlock ==
  /\ script = "exercises"
  /\ db.seq.enrollments < MaxEnrollId
  /\ \E s1 \in StudentIds, code \in {CodeOrder[i] : i \in 1..Len(CodeOrder)} :
       LET course == (CHOOSE k \in db.courses : k.code = code).id
           r == main_block(Conn, s1, course)
       IN  /\ db' = r.conn.db
           /\ saved' = r.conn.saved
           /\ inTxn' = r.conn.inTxn
           /\ result' = [op |-> "main_block", exc |-> r.exc,
                         constraint |-> r.constraint, val |-> r.val,
                         calls |-> r.calls, raised |-> r.raised,
                         rolledBack |-> r.rolledBack, before |-> r.before]
           /\ UNCHANGED script

AssignIds == 1..MaxAssignId

HwAddStudent ==
  /\ script = "homework"
  /\ db.seq.students < MaxStudentId
  /\ \E name \in HwNames \cup {Null}, email \in HwEmails \cup {Null} :
       Apply("add_student", hw_add_student(Conn, name, email))

HwAddAssignment ==
  /\ script = "homework"
  /\ db.seq.assignments < MaxAssignId
  /\ \E title \in HwTitles \cup {Null}, max_points \in MaxPointsArgs :
       Apply("add_assignment", add_assignment(Conn, title, max_points))

HwRecordGrade ==
  /\ script = "homework"
  /\ db.seq.grades < MaxGradeId
  /\ \E s \in StudentIds, a \in AssignIds, score \in ScoreArgs :
       Apply("record_grade", record_grade(Conn, s, a, score))

HwLeaderboard ==
  /\ script = "homework"
  /\ \E r \in leaderboard(Conn) : Apply("leaderboard", r)

HwCommit ==
  /\ script = "homework"
  /\ Apply("commit", Ret(commit(Conn), NoExc, 0))

NoResult == [op |-> "none", exc |-> NoExc, constraint |-> "", val |-> 0]

Init ==
  /\ script \in {"exercises", "homework"}
  /\ db = IF script = "exercises" THEN ExInitDb ELSE HwInitDb
  /\ saved = db
  /\ inTxn = FALSE
  /\ result = NoResult

Next ==
  \/ ExAddStudent
  \/ ExRenameStudent
  \/ ExDeleteStudent
  \/ ExEnrollStudent
  \/ ExListEnrollments
  \/ ExBegin
  \/ ExCommitStmt
  \/ ExRollbackStmt
  \/ ExCommit
  \/ ExMainBlock
  \/ HwAddStudent
  \/ HwAddAssignment
  \/ HwRecordGrade
  \/ HwLeaderboard
  \/ HwCommit

Spec == Init /\ [][Next]_vars

----------------------------------------------------------------------------
(* Properties *)

PairOf(e) == <<e.student_id, e.course_id>>

\* C1: when the try block of main made both enroll_student calls, the second
\* raised IntegrityError, the handler rolled back, no transaction is left
\* open, the enrollments table is what it was before BEGIN (the first
\* insert is undone too) and the listing has one row per enrollment that
\* was there before BEGIN, none for the block.
C1_RollbackUndoesBlock ==
  (script = "exercises" /\ result.op = "main_block" /\ result.calls = 2) =>
     /\ result.raised = IntegrityError
     /\ result.rolledBack
     /\ ~inTxn
     /\ db.enrollments = result.before
     /\ result.exc = NoExc
     /\ Len(result.val) = Cardinality(result.before)
     /\ \A i \in 1..Len(result.val) :
           \E e \in result.before, s \in db.students, k \in db.courses :
              /\ s.id = e.student_id /\ k.id = e.course_id
              /\ result.val[i] = [student_name |-> s.name, course_code |-> k.code,
                                  course_title |-> k.title]

\* the case of main: no enrollment before the block, an empty listing after it
C1_Witness ==
  /\ script = "exercises"
  /\ result.op = "main_block"
  /\ result.calls = 2
  /\ result.rolledBack
  /\ result.before = {}
  /\ result.val = <<>>
  /\ db.students # {}

\* C2: no two rows of enrollments have the same (student_id, course_id), in
\* the connection's view and in the committed database, and in every
\* reachable state enroll_student for a pair that is present raises
\* IntegrityError and leaves the enrollments table as it is.
C2_EnrollmentPairsUnique ==
  script = "exercises" =>
     /\ \A t \in {db.enrollments, saved.enrollments} :
           \A e1, e2 \in t : PairOf(e1) = PairOf(e2) => e1 = e2
     /\ \A e \in db.enrollments :
           LET r == enroll_student(Conn, e.student_id, e.course_id)
           IN  /\ r.exc = IntegrityError
               /\ r.conn.db.enrollments = db.enrollments

\* a duplicate enrollment was just refused, outside the try block of main
C2_Witness ==
  /\ script = "exercises"
  /\ result.op = "enroll_student"
  /\ result.exc = IntegrityError
  /\ result.constraint = "UNIQUE"
  /\ db.enrollments # {}

\* C3: in both scripts no two rows of students have the same email, and in
\* every reachable state add_student with an email that is present raises
\* IntegrityError and leaves the students table as it is.
C3_EmailsUnique ==
  /\ \A t \in {db.students, saved.students} :
        \A s1, s2 \in t : s1.email = s2.email => s1 = s2
  /\ \A s \in db.students, name \in Names \cup HwNames :
        LET r == IF script = "exercises" THEN add_student(Conn, name, s.email)
                 ELSE hw_add_student(Conn, name, s.email)
        IN  /\ r.exc = IntegrityError
            /\ r.conn.db.students = db.students

\* an add_student with a used email was just refused after a rename
C3_Witness ==
  /\ script = "exercises"
  /\ result.op = "add_student"
  /\ result.exc = IntegrityError
  /\ result.constraint = "UNIQUE"
  /\ \E s \in db.students, q \in saved.students : s.id = q.id /\ s.name # q.name

\* C4: there is at most one grades row per (student_id, assignment_id), and
\* in every reachable state record_grade for a pair that has a grade raises
\* IntegrityError and leaves every grades row, its score included, as it is.
C4_OneGradePerPair ==
  script = "homework" =>
     /\ \A t \in {db.grades, saved.grades} :
           \A g1, g2 \in t :
              (g1.student_id = g2.student_id /\ g1.assignment_id = g2.assignment_id)
                 => g1 = g2
     /\ \A g \in db.grades, score \in ScoreArgs :
           LET r == record_grade(Conn, g.student_id, g.assignment_id, score)
           IN  /\ r.exc = IntegrityError
               /\ r.conn.db.grades = db.grades

\* a second grade for a pair was just refused
C4_Witness ==
  /\ script = "homework"
  /\ result.op = "record_grade"
  /\ result.exc = IntegrityError
  /\ result.constraint = "UNIQUE"
  /\ db.grades # {}

\* the students with at least one grade
Graded(d) == {s \in d.students : \E g \in d.grades : g.student_id = s.id}

\* the sum of score / max_points * 100 over a set of grades, as a fraction
RECURSIVE PercentSum(_, _)
PercentSum(d, gs) ==
  IF gs = {} THEN <<0, 1>>
  ELSE LET g == CHOOSE x \in gs : TRUE
           m == (CHOOSE a \in d.assignments : a.id = g.assignment_id).max_points
           rest == PercentSum(d, gs \ {g})
       IN  <<100 * g.score * rest[2] + rest[1] * m, m * rest[2]>>

\* the average percent of a student, as a fraction
StudentAverage(d, s) ==
  LET gs == {g \in d.grades : g.student_id = s.id}
      sum == PercentSum(d, gs)
  IN  <<sum[1], sum[2] * Cardinality(gs)>>

\* avg_percent is counted in tenths
IsExactly(tenths, x) == tenths * x[2] = 10 * x[1]

IsRoundedTo1(tenths, x) ==
  /\ 2 * tenths * x[2] <= 20 * x[1] + x[2]
  /\ 20 * x[1] + x[2] < 2 * (tenths + 1) * x[2]

\* rows is one row per graded student, with the student's name and an
\* avg_percent that Value accepts, in non-increasing order of avg_percent
IsLeaderboard(rows, d, Value(_, _)) ==
  /\ Len(rows) = Cardinality(Graded(d))
  /\ \E f \in [1..Len(rows) -> Graded(d)] :
        /\ \A i, j \in 1..Len(rows) : i # j => f[i] # f[j]
        /\ \A i \in 1..Len(rows) :
              /\ rows[i].student_name = f[i].name
              /\ Value(rows[i].avg_percent, StudentAverage(d, f[i]))
  /\ \A i \in 1..(Len(rows) - 1) : rows[i].avg_percent >= rows[i + 1].avg_percent

\* C5 as stated: leaderboard returns one row per student with a grade, in
\* non-increasing order of avg_percent, and avg_percent is the average of
\* the student's score / max_points * 100.
C5_AvgPercentIsAverage ==
  (script = "homework" /\ result.op = "leaderboard") =>
     IsLeaderboard(result.val, db, IsExactly)

\* C5 amended: leaderboard returns one row per student with a grade, in
\* non-increasing order of avg_percent, and avg_percent is the average of
\* the student's score / max_points * 100 rounded to one decimal place.
C5_AvgPercentIsRoundedAverage ==
  (script = "homework" /\ result.op = "leaderboard") =>
     IsLeaderboard(result.val, db, IsRoundedTo1)

\* a leaderboard of two students of the same name, the first with the
\* strictly higher avg_percent, none of the two an exact number of tenths
C5_Witness ==
  /\ script = "homework"
  /\ result.op = "leaderboard"
  /\ Len(result.val) = 2
  /\ result.val[1].student_name = result.val[2].student_name
  /\ result.val[1].avg_percent > result.val[2].avg_percent
  /\ \A s \in Graded(db), i \in 1..2 :
        ~IsExactly(result.val[i].avg_percent, StudentAverage(db, s))

====
